---- MODULE Spec2Model ----
(***************************************************************************)
(* The invoice extraction-and-review workflow of invoice_extractor.py:     *)
(* per-session run state (st.session_state), the three screens, and the    *)
(* verified_invoices.json file that all sessions share.                    *)
(***************************************************************************)
EXTENDS Integers, Sequences, FiniteSets, TLC

(* ------------------------------ bounds --------------------------------- *)
\* pages of one "Extract All" batch, over all its uploaded files
MaxRows == 2

\* browser sessions running the script against the same working directory
Sessions == {"s1", "s2"}
\* names an uploaded file can carry
DocNames == {"a.pdf", "b.pdf"}

VARIABLES
    fileExists,          \* os.path.exists(VERIFIED_INVOICES_FILE)
    fileBytes,           \* the content of verified_invoices.json, as tokens
    data,                \* st.session_state.data, per session
    extraction_complete, \* st.session_state.extraction_complete, per session
    total_pages,         \* local of render_main_page, per session
    count,               \* local of render_main_page, per session
    todo,                \* pages the batch loop has still to visit, per session
    pc,                  \* where the session's script run stands
    verified_invoices,   \* the list a review handler loaded and is saving
    offset,              \* write position of the session's open file object
    approval,            \* keys of the entries the finance page shows
    clicked,             \* the button that fired the session's last review run
    outcome,             \* what the last script run of the session reported
    verified_rows,       \* history: rows of data verified during this run
    text_input,          \* the fields whose input box the reviewer changed
    returned_rows,       \* history: rows whose call returned a JSON object
    compress_of,         \* compress_image: the source file of the running copy
    max_size_mb,         \* compress_image: its parameter
    quality,             \* compress_image: its local
    img_byte_arr,        \* compress_image: img_byte_arr.tell() after the save
    cpc,                 \* compress_image: where the call stands
    encodes              \* history: image.save calls of the running call

\* the state of the three screens and of the store file
flowVars == <<fileExists, fileBytes, data, extraction_complete, total_pages,
              count, todo, pc, verified_invoices, offset, approval, clicked,
              outcome, verified_rows, text_input, returned_rows>>

\* the state of one call of compress_image
compressVars == <<compress_of, max_size_mb, quality, img_byte_arr, cpc,
                  encodes>>

vars == <<flowVars, compressVars>>

runVars == <<data, extraction_complete, total_pages, count, todo>>
fileVars == <<fileExists, fileBytes>>

(* --------------------------- nested JSON values ------------------------ *)
\* a scalar is [s |-> text], a dict is [d |-> <<<<key, value>>, ...>>] in
\* insertion order, a list is [l |-> <<value, ...>>], None is [none |-> TRUE]
Scalar(x) == [s |-> x]
Dict(items) == [d |-> items]
List(items) == [l |-> items]
None == [none |-> TRUE]

isdict(v) == DOMAIN v = {"d"}
islist(v) == DOMAIN v = {"l"}

\* "key in d" for a dict value
HasKey(v, k) == \E i \in 1..Len(v.d) : v.d[i][1] = k

(* ------------------------------ flatten_json --------------------------- *)
sep == " > "

\* dict(items): a later pair with the same key replaces the value and keeps
\* the position of the first one
RECURSIVE DictOf(_, _)
DictOf(items, acc) ==
    IF items = <<>> THEN acc
    ELSE LET it == Head(items)
             hit == {i \in 1..Len(acc) : acc[i][1] = it[1]}
         IN DictOf(Tail(items),
                   IF hit = {} THEN Append(acc, it)
                   ELSE [i \in 1..Len(acc) |->
                            IF i \in hit THEN it ELSE acc[i]])

RECURSIVE flatten_json(_, _)
RECURSIVE FlattenList(_, _, _)
\* the inner loop over a list value: dict elements are flattened under
\* new_key[idx], every other element is kept as it is
FlattenList(v, new_key, idx) ==
    IF idx > Len(v) THEN <<>>
    ELSE LET item == v[idx]
             path == new_key \o "[" \o ToString(idx - 1) \o "]"
         IN (IF isdict(item) THEN flatten_json(item, path)
             ELSE << <<path, item>> >>)
            \o FlattenList(v, new_key, idx + 1)

RECURSIVE FlattenItems(_, _)
FlattenItems(its, parent_key) ==
    IF its = <<>> THEN <<>>
    ELSE LET k == Head(its)[1]
             v == Head(its)[2]
             new_key == IF parent_key # "" THEN parent_key \o sep \o k ELSE k
         IN (IF isdict(v) THEN flatten_json(v, new_key)
             ELSE IF islist(v) THEN FlattenList(v.l, new_key, 1)
             ELSE << <<new_key, v>> >>)
            \o FlattenItems(Tail(its), parent_key)

flatten_json(dv, parent_key) == DictOf(FlattenItems(dv.d, parent_key), <<>>)

\* the text a text_input shows for a flattened value
Str(v) == IF DOMAIN v = {"s"} THEN v.s ELSE "[...]"

(* ------------------------ extract_text_from_image ---------------------- *)
OkRecord ==
    Dict(<< <<"InvoiceDetails", Dict(<< <<"Number", Scalar("INV-001")>> >>)>> >>)
\* a well-formed answer of the model that happens to carry an "error" key
ErrKeyRecord == Dict(<< <<"error", Scalar("not an invoice")>> >>)

\* what openai.chat.completions.create can do: raise, or return a content
\* that is a JSON object, or return a content json.loads cannot parse
Responses ==
    { [exc |-> "model timeout"],
      [content |-> OkRecord],
      [content |-> ErrKeyRecord],
      [content |-> None] }

extract_text_from_image(resp) ==
    IF "exc" \in DOMAIN resp
    THEN Dict(<< <<"error", Scalar(resp.exc)>> >>)
    ELSE IF isdict(resp.content) THEN resp.content
    ELSE Dict(<< <<"error", Scalar("Expecting value")>> >>)

\* the call came back and json.loads made a JSON object of its content
Returned(resp) == "content" \in DOMAIN resp /\ isdict(resp.content)

(* ----------------------- verified_invoices.json ------------------------ *)
\* The file is a sequence of tokens: one per serialized invoice, then the
\* token that closes the JSON list.  A position no writer has filled reads
\* as a hole.
END == [end |-> TRUE]
HOLE == [hole |-> TRUE]
IsEntry(tok) == DOMAIN tok = {"file", "page", "fields"}

\* json.dump(verified_invoices, f, indent=4)
json_dump(invoices) == Append(invoices, END)

\* json.load succeeds on exactly the complete serialization of a list
Readable(bytes) ==
    /\ Len(bytes) >= 1
    /\ bytes[Len(bytes)] = END
    /\ \A i \in 1..(Len(bytes) - 1) : IsEntry(bytes[i])

json_load(bytes) == SubSeq(bytes, 1, Len(bytes) - 1)

\* load_verified_invoices() returns, or raises out of json.load
LoadRaises == fileExists /\ ~Readable(fileBytes)
load_verified_invoices == IF fileExists THEN json_load(fileBytes) ELSE <<>>

\* f.write at the position of the writer's own file object
WriteAt(bytes, off, toks) ==
    LET n == IF Len(bytes) > off + Len(toks) THEN Len(bytes)
             ELSE off + Len(toks)
    IN [i \in 1..n |->
          IF i > off /\ i <= off + Len(toks) THEN toks[i - off]
          ELSE IF i <= Len(bytes) THEN bytes[i]
          ELSE HOLE]

KeyOf(r) == <<r.file, r.page>>
KeysOf(seq) == {KeyOf(seq[i]) : i \in 1..Len(seq)}

\* st.button(..., key=f"verify_{idx}") and key=f"approve_{idx}"; idx counts
\* from 1 here, and 0 stands for a run no button fired
Button(kind, idx) == [btn |-> kind, idx |-> idx]
NoButton == Button("none", 0)
ButtonOf(kind, click) == IF click = 0 THEN NoButton ELSE Button(kind, click)

(* -------------------------------- Init --------------------------------- *)
\* no call of compress_image is under way
NoCompress ==
    /\ compress_of = "none"
    /\ max_size_mb = 0
    /\ quality = 0
    /\ img_byte_arr = 0
    /\ cpc = "none"
    /\ encodes = 0

Init ==
    /\ fileExists = FALSE
    /\ fileBytes = <<>>
    /\ data = [s \in Sessions |-> <<>>]
    /\ extraction_complete = [s \in Sessions |-> FALSE]
    /\ total_pages = [s \in Sessions |-> 0]
    /\ count = [s \in Sessions |-> 0]
    /\ todo = [s \in Sessions |-> <<>>]
    /\ pc = [s \in Sessions |-> "idle"]
    /\ verified_invoices = [s \in Sessions |-> <<>>]
    /\ offset = [s \in Sessions |-> 0]
    /\ approval = [s \in Sessions |-> <<>>]
    /\ clicked = [s \in Sessions |-> NoButton]
    /\ outcome = [s \in Sessions |-> "none"]
    /\ verified_rows = [s \in Sessions |-> {}]
    /\ text_input = [s \in Sessions |-> {}]
    /\ returned_rows = [s \in Sessions |-> {}]
    /\ NoCompress

(* --------------------- render_main_page: Extract All ------------------- *)
\* an upload is <<name, page_count>>; the uploader accepts several files and
\* does not look at their names
\* the (file, page) visits of the two nested loops, in order
RECURSIVE PagesOf(_)
PagesOf(files) ==
    IF files = <<>> THEN <<>>
    ELSE [p \in 1..Head(files)[2] |-> <<Head(files)[1], p>>]
         \o PagesOf(Tail(files))

Uploads(names) ==
    {files \in UNION {[1..n -> names \X (1..MaxRows)] : n \in 1..MaxRows} :
        Len(PagesOf(files)) <= MaxRows}

\* "Extract All" pressed: the run state is reset and the pages are counted
ExtractAll(s, uploaded_files) ==
    /\ pc[s] = "idle"
    /\ data' = [data EXCEPT ![s] = <<>>]
    /\ extraction_complete' = [extraction_complete EXCEPT ![s] = FALSE]
    /\ todo' = [todo EXCEPT ![s] = PagesOf(uploaded_files)]
    /\ total_pages' = [total_pages EXCEPT ![s] = Len(PagesOf(uploaded_files))]
    /\ count' = [count EXCEPT ![s] = 0]
    /\ pc' = [pc EXCEPT ![s] = "extracting"]
    /\ outcome' = [outcome EXCEPT ![s] = "none"]
    /\ approval' = [approval EXCEPT ![s] = <<>>]
    /\ clicked' = [clicked EXCEPT ![s] = NoButton]
    /\ verified_rows' = [verified_rows EXCEPT ![s] = {}]
    /\ text_input' = [text_input EXCEPT ![s] = {}]
    /\ returned_rows' = [returned_rows EXCEPT ![s] = {}]
    /\ UNCHANGED <<fileVars, verified_invoices, offset, compressVars>>

\* loop body up to the call: the entry is appended with "Extracting..."
BeginPage(s) ==
    /\ pc[s] = "extracting"
    /\ todo[s] # <<>>
    /\ data' = [data EXCEPT ![s] =
                  Append(@, [file |-> Head(todo[s])[1],
                             page |-> Head(todo[s])[2],
                             status |-> "Extracting...",
                             json |-> None])]
    /\ pc' = [pc EXCEPT ![s] = "calling"]
    /\ UNCHANGED <<fileVars, extraction_complete, total_pages, count, todo,
                   verified_invoices, offset, approval, clicked, outcome,
                   verified_rows, text_input, returned_rows, compressVars>>

\* CompletePage with a loop that stops at the first failed page
CompletePageStopsOnFailure(s, resp) ==
    /\ pc[s] = "calling"
    /\ LET result == extract_text_from_image(resp)
           n == Len(data[s])
           failed == HasKey(result, "error")
       IN /\ data' = [data EXCEPT ![s][n].status =
                          IF ~failed THEN "Done" ELSE "Failed",
                                  ![s][n].json = result]
          /\ count' = [count EXCEPT ![s] = @ + 1]
          /\ todo' = [todo EXCEPT ![s] = IF failed THEN <<>> ELSE Tail(@)]
          /\ IF failed \/ Tail(todo[s]) = <<>>
             THEN /\ extraction_complete' =
                       [extraction_complete EXCEPT ![s] = TRUE]
                  /\ pc' = [pc EXCEPT ![s] = "idle"]
             ELSE /\ UNCHANGED extraction_complete
                  /\ pc' = [pc EXCEPT ![s] = "extracting"]
    /\ returned_rows' = [returned_rows EXCEPT ![s] =
                            IF Returned(resp) THEN @ \cup {Len(data[s])}
                            ELSE @]
    /\ UNCHANGED <<fileVars, total_pages, verified_invoices, offset, approval,
                   clicked, outcome, verified_rows, text_input, compressVars>>

\* CompletePage with a progress count that leaves out the failed pages
CompletePageCountsDoneOnly(s, resp) ==
    /\ pc[s] = "calling"
    /\ LET result == extract_text_from_image(resp)
           n == Len(data[s])
       IN data' = [data EXCEPT ![s][n].status =
                        IF ~HasKey(result, "error") THEN "Done" ELSE "Failed",
                                ![s][n].json = result]
    /\ count' = [count EXCEPT ![s] =
                    IF HasKey(extract_text_from_image(resp), "error")
                    THEN @ ELSE @ + 1]
    /\ todo' = [todo EXCEPT ![s] = Tail(@)]
    /\ IF Tail(todo[s]) = <<>>
       THEN /\ extraction_complete' = [extraction_complete EXCEPT ![s] = TRUE]
            /\ pc' = [pc EXCEPT ![s] = "idle"]
       ELSE /\ UNCHANGED extraction_complete
            /\ pc' = [pc EXCEPT ![s] = "extracting"]
    /\ returned_rows' = [returned_rows EXCEPT ![s] =
                            IF Returned(resp) THEN @ \cup {Len(data[s])}
                            ELSE @]
    /\ UNCHANGED <<fileVars, total_pages, verified_invoices, offset, approval,
                   clicked, outcome, verified_rows, text_input, compressVars>>

\* the call returns: status and json are set on the entry, the progress is
\* advanced; after the last page extraction_complete is set
CompletePage(s, resp) ==
    /\ pc[s] = "calling"
    /\ LET result == extract_text_from_image(resp)
           n == Len(data[s])
       IN data' = [data EXCEPT ![s][n].status =
                        IF ~HasKey(result, "error") THEN "Done" ELSE "Failed",
                                ![s][n].json = result]
    /\ count' = [count EXCEPT ![s] = @ + 1]
    /\ todo' = [todo EXCEPT ![s] = Tail(@)]
    /\ IF Tail(todo[s]) = <<>>
       THEN /\ extraction_complete' = [extraction_complete EXCEPT ![s] = TRUE]
            /\ pc' = [pc EXCEPT ![s] = "idle"]
       ELSE /\ UNCHANGED extraction_complete
            /\ pc' = [pc EXCEPT ![s] = "extracting"]
    /\ returned_rows' = [returned_rows EXCEPT ![s] =
                            IF Returned(resp) THEN @ \cup {Len(data[s])}
                            ELSE @]
    /\ UNCHANGED <<fileVars, total_pages, verified_invoices, offset, approval,
                   clicked, outcome, verified_rows, text_input, compressVars>>

\* rendering or compressing the page raises (nothing catches it), or the
\* user's next interaction stops the script run: the batch is abandoned
AbortBatch(s) ==
    /\ pc[s] = "calling"
    /\ pc' = [pc EXCEPT ![s] = "idle"]
    /\ todo' = [todo EXCEPT ![s] = <<>>]
    /\ outcome' = [outcome EXCEPT ![s] = "exception"]
    /\ UNCHANGED <<fileVars, data, extraction_complete, total_pages, count,
                   verified_invoices, offset, approval, clicked,
                   verified_rows, text_input, returned_rows, compressVars>>

(* ------------------------ render_procurement_review -------------------- *)
\* the loop over st.session_state.data with its "continue": the indices of
\* the rows that get an expander, in the order of data
\* PendingFrom without the test of the row's status
RECURSIVE PendingFromAnyStatus(_, _, _)
PendingFromAnyStatus(rows, already_verified, idx) ==
    IF idx > Len(rows) THEN <<>>
    ELSE LET row == rows[idx]
             key == <<row.file, row.page>>
         IN (IF ~isdict(row.json) \/ key \in already_verified
             THEN <<>> ELSE <<idx>>)
            \o PendingFromAnyStatus(rows, already_verified, idx + 1)

\* PendingFrom without the test against the keys of the store
RECURSIVE PendingFromIgnoringStore(_, _, _)
PendingFromIgnoringStore(rows, already_verified, idx) ==
    IF idx > Len(rows) THEN <<>>
    ELSE LET row == rows[idx]
         IN (IF row.status # "Done" \/ ~isdict(row.json)
             THEN <<>> ELSE <<idx>>)
            \o PendingFromIgnoringStore(rows, already_verified, idx + 1)

RECURSIVE PendingFrom(_, _, _)
PendingFrom(rows, already_verified, idx) ==
    IF idx > Len(rows) THEN <<>>
    ELSE LET row == rows[idx]
             key == <<row.file, row.page>>
         IN (IF row.status # "Done" \/ ~isdict(row.json)
                \/ key \in already_verified
             THEN <<>> ELSE <<idx>>)
            \o PendingFrom(rows, already_verified, idx + 1)

PendingReview(rows, loaded) == PendingFrom(rows, KeysOf(loaded), 1)

InSeq(x, seq) == \E i \in 1..Len(seq) : seq[i] = x

\* what the reviewer may type into a text_input in place of its value
EditValue == "INV-001-A"

\* VerifiedEntry that stores the extracted value, not the input box's text
VerifiedEntryKeepsExtracted(flat, edited) ==
    [i \in 1..Len(flat) |-> <<flat[i][1], Str(flat[i][2])>>]

\* verified_entry: every flattened field with the text of its input box
VerifiedEntry(flat, edited) ==
    [i \in 1..Len(flat) |->
        <<flat[i][1], IF flat[i][1] \in edited THEN EditValue
                      ELSE Str(flat[i][2])>>]

PathsOf(flat) == {flat[i][1] : i \in 1..Len(flat)}

\* One run of the procurement screen.  click = 0 is a plain render; click = i
\* is the run fired by the button verify_i, with `edited` the fields whose
\* input box was changed.
render_procurement_review(s, click, edited) ==
    /\ \/ pc[s] = "idle"
       \/ pc[s] = "proc_rerun" /\ click = 0
    /\ click \in 0..Len(data[s])
    /\ clicked' = [clicked EXCEPT ![s] = ButtonOf("verify", click)]
    /\ approval' = [approval EXCEPT ![s] = <<>>]
    /\ IF data[s] = <<>>
       THEN /\ edited = {}
            /\ outcome' = [outcome EXCEPT ![s] = "warning"]
            /\ pc' = [pc EXCEPT ![s] = "idle"]
            /\ text_input' = [text_input EXCEPT ![s] = {}]
            /\ UNCHANGED verified_invoices
       ELSE IF LoadRaises
       THEN /\ edited = {}
            /\ outcome' = [outcome EXCEPT ![s] = "JSONDecodeError"]
            /\ pc' = [pc EXCEPT ![s] = "idle"]
            /\ text_input' = [text_input EXCEPT ![s] = {}]
            /\ UNCHANGED verified_invoices
       ELSE LET loaded == load_verified_invoices
                pending == PendingReview(data[s], loaded)
            IN IF click # 0 /\ InSeq(click, pending)
               THEN LET row == data[s][click]
                        flat_data == flatten_json(row.json, "")
                    IN /\ edited \in SUBSET PathsOf(flat_data)
                       /\ verified_invoices' =
                            [verified_invoices EXCEPT ![s] =
                               Append(loaded,
                                      [file |-> row.file,
                                       page |-> row.page,
                                       fields |-> VerifiedEntry(flat_data,
                                                                edited)])]
                       /\ text_input' = [text_input EXCEPT ![s] = edited]
                       /\ pc' = [pc EXCEPT ![s] = "verify_open"]
                       /\ outcome' = [outcome EXCEPT ![s] = "none"]
               ELSE /\ edited = {}
                    /\ pc' = [pc EXCEPT ![s] = "idle"]
                    /\ outcome' = [outcome EXCEPT ![s] = "none"]
                    /\ text_input' = [text_input EXCEPT ![s] = {}]
                    /\ UNCHANGED verified_invoices
    /\ UNCHANGED <<fileVars, runVars, offset, verified_rows, returned_rows,
                   compressVars>>

(* ------------------------- save_verified_invoices ---------------------- *)
\* open(VERIFIED_INVOICES_FILE, 'w'): the file is created or truncated
SaveOpen(s) ==
    /\ pc[s] \in {"verify_open", "approve_open"}
    /\ fileExists' = TRUE
    /\ fileBytes' = <<>>
    /\ offset' = [offset EXCEPT ![s] = 0]
    /\ pc' = [pc EXCEPT ![s] = IF pc[s] = "verify_open" THEN "verify_write"
                                ELSE "approve_write"]
    /\ UNCHANGED <<runVars, verified_invoices, approval, clicked, outcome,
                   verified_rows, text_input, returned_rows, compressVars>>

\* the buffered writer hands the next n tokens to the file; with the last
\* one the file is closed, and the handler goes on to st.rerun()
SaveWrite(s, n) ==
    /\ pc[s] \in {"verify_write", "approve_write"}
    /\ LET toks == json_dump(verified_invoices[s])
       IN /\ n \in 1..(Len(toks) - offset[s])
          /\ fileBytes' = WriteAt(fileBytes, offset[s],
                                  SubSeq(toks, offset[s] + 1, offset[s] + n))
          /\ IF offset[s] + n = Len(toks)
             THEN /\ pc' = [pc EXCEPT ![s] =
                              IF pc[s] = "verify_write" THEN "proc_rerun"
                              ELSE "fin_rerun"]
                  /\ outcome' = [outcome EXCEPT ![s] =
                              IF pc[s] = "verify_write" THEN "verified"
                              ELSE @]
                  /\ verified_rows' = [verified_rows EXCEPT ![s] =
                              IF pc[s] = "verify_write"
                              THEN @ \cup {clicked[s].idx} ELSE @]
                  /\ offset' = [offset EXCEPT ![s] = 0]
                  /\ verified_invoices' =
                       [verified_invoices EXCEPT ![s] = <<>>]
             ELSE /\ offset' = [offset EXCEPT ![s] = @ + n]
                  /\ UNCHANGED <<pc, outcome, verified_invoices,
                                 verified_rows>>
    /\ UNCHANGED <<fileExists, runVars, approval, clicked, text_input,
                   returned_rows, compressVars>>

\* a write raises (the medium is full or gone) or the process dies: the
\* script run ends with the file as the writes so far have left it
SaveRaises(s) ==
    /\ pc[s] \in {"verify_write", "approve_write"}
    /\ pc' = [pc EXCEPT ![s] = "idle"]
    /\ outcome' = [outcome EXCEPT ![s] = "OSError"]
    /\ offset' = [offset EXCEPT ![s] = 0]
    /\ verified_invoices' = [verified_invoices EXCEPT ![s] = <<>>]
    /\ text_input' = [text_input EXCEPT ![s] = {}]
    /\ UNCHANGED <<fileVars, runVars, approval, clicked, verified_rows,
                   returned_rows, compressVars>>

(* -------------------------- render_finance_approval -------------------- *)
\* updated_invoices: every loaded invoice but the one whose button fired
RemoveAt(seq, idx) ==
    [i \in 1..(Len(seq) - 1) |-> IF i < idx THEN seq[i] ELSE seq[i + 1]]

UpdatedInvoices(loaded, click) ==
    IF click \in 1..Len(loaded) THEN RemoveAt(loaded, click) ELSE loaded

\* One run of the finance screen.  click = 0 is a plain render; click = i is
\* the run fired by the button approve_i of the page the approver looks at.
render_finance_approval(s, click) ==
    /\ \/ pc[s] = "idle"
       \/ pc[s] = "fin_rerun" /\ click = 0
    /\ click \in 0..Len(approval[s])
    /\ clicked' = [clicked EXCEPT ![s] = ButtonOf("approve", click)]
    /\ IF LoadRaises
       THEN /\ outcome' = [outcome EXCEPT ![s] = "JSONDecodeError"]
            /\ approval' = [approval EXCEPT ![s] = <<>>]
            /\ pc' = [pc EXCEPT ![s] = "idle"]
            /\ UNCHANGED verified_invoices
       ELSE LET loaded == load_verified_invoices
                updated_invoices == UpdatedInvoices(loaded, click)
            IN IF loaded = <<>>
               THEN /\ outcome' = [outcome EXCEPT ![s] = "info"]
                    /\ approval' = [approval EXCEPT ![s] = <<>>]
                    /\ pc' = [pc EXCEPT ![s] = "idle"]
                    /\ UNCHANGED verified_invoices
               ELSE IF Len(updated_invoices) # Len(loaded)
               THEN /\ outcome' = [outcome EXCEPT ![s] = "approved"]
                    /\ verified_invoices' =
                         [verified_invoices EXCEPT ![s] = updated_invoices]
                    /\ pc' = [pc EXCEPT ![s] = "approve_open"]
                    /\ UNCHANGED approval
               ELSE /\ outcome' = [outcome EXCEPT ![s] = "none"]
                    /\ approval' = [approval EXCEPT ![s] =
                         [i \in 1..Len(loaded) |-> KeyOf(loaded[i])]]
                    /\ pc' = [pc EXCEPT ![s] = "idle"]
                    /\ UNCHANGED verified_invoices
    /\ text_input' = [text_input EXCEPT ![s] = {}]
    /\ UNCHANGED <<fileVars, runVars, offset, verified_rows, returned_rows,
                   compressVars>>

(* ------------------------------- Next ---------------------------------- *)
\* the steps of the extraction screen of session s
RunStep(s, uploads, responses) ==
    \/ \E uploaded_files \in uploads : ExtractAll(s, uploaded_files)
    \/ BeginPage(s)
    \/ \E resp \in responses : CompletePage(s, resp)
    \/ AbortBatch(s)

\* the steps of the two review screens of session s
ReviewStep(s, edits) ==
    \/ \E click \in 0..MaxRows :
         \E edited \in edits : render_procurement_review(s, click, edited)
    \/ SaveOpen(s)
    \/ \E n \in 1..(MaxRows + 1) : SaveWrite(s, n)
    \/ SaveRaises(s)
    \/ \E click \in 0..MaxRows : render_finance_approval(s, click)

\* one session: every batch of at most MaxRows pages out of files named
\* invoice.pdf, every answer of the model
Next ==
    \/ RunStep("s1", Uploads({"invoice.pdf"}), Responses)
    \/ ReviewStep("s1", SUBSET {"InvoiceDetails > Number"})

Spec == Init /\ [][Next]_vars

\* one session that stays on the extraction screen, its uploads named a.pdf or
\* b.pdf
NextExtract == RunStep("s1", Uploads(DocNames), Responses)

SpecExtract == Init /\ [][NextExtract]_vars

\* two sessions against one store file, each working on a one-page upload
\* whose extraction succeeds
OnePage == {<< <<name, 1>> >> : name \in DocNames}

ProcurementStep(s) ==
    \/ \E uploaded_files \in OnePage : ExtractAll(s, uploaded_files)
    \/ BeginPage(s)
    \/ CompletePage(s, [content |-> OkRecord])
    \/ \E click \in 0..1 : render_procurement_review(s, click, {})
    \/ SaveOpen(s)

\* both review screens, the store small enough to go out in one write
Remaining(s) == Len(json_dump(verified_invoices[s])) - offset[s]

NextShared ==
    \E s \in Sessions :
        \/ ProcurementStep(s)
        \/ SaveWrite(s, Remaining(s))
        \/ \E click \in 0..2 : render_finance_approval(s, click)

SpecShared == Init /\ [][NextShared]_vars

\* nobody opens the finance screen, the writes go out in any chunks
NextVerify ==
    \E s \in Sessions :
        \/ ProcurementStep(s)
        \/ \E n \in 1..3 : SaveWrite(s, n)

SpecVerify == Init /\ [][NextVerify]_vars

\* one page whose answer is any of a family of nested JSON objects, shown on
\* the procurement screen and verified as it is
Leaves == {Scalar("x"), Scalar("")}

Shallow ==
    Leaves \cup {List(<<>>), Dict(<<>>), List(<<Scalar("x"), Scalar("")>>)}
           \cup {List(<<v>>) : v \in Leaves}
           \cup {Dict(<< <<"b", v>> >>) : v \in Leaves}

Nested ==
    Shallow \cup {List(<<v>>) : v \in Shallow}
            \cup {Dict(<< <<"b", v>> >>) : v \in Shallow}

NestedRecords ==
    {Dict(<< <<"a", v>> >>) : v \in Nested}
    \cup {Dict(<< <<"a", v[1]>>, <<v[2], v[3]>> >>) :
            v \in Shallow \X {"b", "a > b", "a[0]"} \X Leaves}

NextFlatten ==
    \/ ExtractAll("s1", << <<"invoice.pdf", 1>> >>)
    \/ BeginPage("s1")
    \/ \E r \in NestedRecords : CompletePage("s1", [content |-> r])
    \/ \E click \in 0..1 : render_procurement_review("s1", click, {})
    \/ SaveOpen("s1")
    \/ SaveWrite("s1", Remaining("s1"))

SpecFlatten == Init /\ [][NextFlatten]_vars

(* ---------------------------- compress_image --------------------------- *)
\* the two copies of the function: the one of invoice_extractor.py starts at
\* quality 95 with a ceiling of 4 MB, the one of vendor_recommender.py at
\* quality 80 with a ceiling of 1 MB
CompressCopies == {"invoice_extractor", "vendor_recommender"}
StartQuality(copy) == IF copy = "invoice_extractor" THEN 95 ELSE 80
DefaultMaxSizeMb(copy) == IF copy = "invoice_extractor" THEN 4 ELSE 1

\* what img_byte_arr.tell() can be after image.save: it depends on the image
\* and on the quality; the values around the two ceilings stand for all
EncodedSizes ==
    {0, 1024 * 1024 - 1, 1024 * 1024, 1024 * 1024 + 1,
     4 * 1024 * 1024, 4 * 1024 * 1024 + 1, 64 * 1024 * 1024}

\* the test of the loop: leave with this encoding
LoopExitsAtZero(size, q, max_mb) == size <= max_mb * 1024 * 1024 \/ q <= 0

LoopExits(size, q, max_mb) == size <= max_mb * 1024 * 1024 \/ q <= 10

\* the call: quality = 95 (or 80), before the loop
CompressCall(copy, max_mb) ==
    /\ cpc = "none"
    /\ compress_of' = copy
    /\ max_size_mb' = max_mb
    /\ quality' = StartQuality(copy)
    /\ img_byte_arr' = 0
    /\ encodes' = 0
    /\ cpc' = "save"
    /\ UNCHANGED flowVars

\* image.save(img_byte_arr, format="JPEG", quality=quality) into a new buffer
ImageSave(size) ==
    /\ cpc = "save"
    /\ img_byte_arr' = size
    /\ encodes' = encodes + 1
    /\ cpc' = "test"
    /\ UNCHANGED <<flowVars, compress_of, max_size_mb, quality>>

\* the test holds: break, and the buffer is returned
CompressReturn ==
    /\ cpc = "test"
    /\ LoopExits(img_byte_arr, quality, max_size_mb)
    /\ cpc' = "returned"
    /\ UNCHANGED <<flowVars, compress_of, max_size_mb, quality, img_byte_arr,
                   encodes>>

\* the test fails: quality -= 5 and once more round the loop
LowerQuality ==
    /\ cpc = "test"
    /\ ~LoopExits(img_byte_arr, quality, max_size_mb)
    /\ quality' = quality - 5
    /\ cpc' = "save"
    /\ UNCHANGED <<flowVars, compress_of, max_size_mb, img_byte_arr, encodes>>

NextCompress ==
    \/ \E copy \in CompressCopies :
         \E max_mb \in {DefaultMaxSizeMb(c) : c \in CompressCopies} :
            CompressCall(copy, max_mb)
    \/ \E size \in EncodedSizes : ImageSave(size)
    \/ CompressReturn
    \/ LowerQuality

SpecCompress == Init /\ [][NextCompress]_vars

\* a call that has begun goes on: nothing but the loop itself holds it up
SpecCompressFair == SpecCompress /\ WF_vars(NextCompress)

(* =============================== claims ================================ *)
Loadable == ~LoadRaises
Store == load_verified_invoices
RowKeys(s) == [i \in 1..Len(data[s]) |-> KeyOf(data[s][i])]
Pending(s) == PendingReview(data[s], Store)
Writing(s) == pc[s] \in {"verify_write", "approve_write"}

\* C1: a row verified during this run is never again in the pending-review
\* list of the run, also not after its invoice was approved and removed
C1_VerifiedNeverReoffered ==
    \A s \in Sessions : \A i \in verified_rows[s] :
        Loadable => ~InSeq(i, Pending(s))

\* the last run of s was fired by a verify button and was turned down
IgnoredVerify(s) ==
    /\ pc[s] = "idle"
    /\ clicked[s].btn = "verify"
    /\ outcome[s] \notin {"JSONDecodeError", "OSError", "exception"}

VerifyInFlight(s) == pc[s] \in {"verify_open", "verify_write"}

C5_Inv ==
    \A s \in Sessions :
        VerifyInFlight(s) =>
            LET row == data[s][clicked[s].idx]
                n == Len(verified_invoices[s])
                loaded == SubSeq(verified_invoices[s], 1, n - 1)
            IN /\ row.status = "Done"
               /\ KeyOf(verified_invoices[s][n]) = KeyOf(row)
               /\ KeyOf(row) \notin KeysOf(loaded)

C5_Step ==
    \A s \in Sessions :
        ( /\ pc[s] = "idle" /\ pc'[s] = "idle"
          /\ clicked'[s].btn = "verify"
          /\ clicked'[s] # clicked[s]
          /\ Loadable )
        => /\ outcome'[s] = "none"
           /\ UNCHANGED <<fileVars, data>>
           /\ LET row == data[s][clicked'[s].idx]
              IN row.status # "Done" \/ KeyOf(row) \in KeysOf(Store)

C6_PendingReviewIsDoneAndUnverified ==
    \A s \in Sessions :
        Loadable =>
            LET p == Pending(s)
            IN /\ \A i \in 1..Len(data[s]) :
                     InSeq(i, p) <=> /\ data[s][i].status = "Done"
                                     /\ KeyOf(data[s][i]) \notin KeysOf(Store)
               /\ \A a, b \in 1..Len(p) : a < b => p[a] < p[b]

\* the handler of verify_2 found rows 1 and 2 pending, in that order
C6_Witness ==
    /\ pc["s1"] = "verify_open"
    /\ clicked["s1"].idx = 2
    /\ Loadable
    /\ Pending("s1") = <<1, 2>>

\* C8: a save that fails partway leaves the store as it was before the
\* handler: readable, with every entry it held
C8_FailedSaveLeavesStore ==
    [][\A s \in Sessions :
          (Writing(s) /\ outcome'[s] = "OSError" /\ pc'[s] = "idle")
          => /\ ~LoadRaises'
             /\ IF pc[s] = "verify_write"
                THEN load_verified_invoices' =
                       SubSeq(verified_invoices[s], 1,
                              Len(verified_invoices[s]) - 1)
                ELSE KeysOf(verified_invoices[s])
                       \subseteq KeysOf(load_verified_invoices')]_vars

\* C9: within a run no two rows have the same (file, page)
C9_OneRowPerKey ==
    \A s \in Sessions : \A i, j \in 1..Len(data[s]) :
        RowKeys(s)[i] = RowKeys(s)[j] => i = j

\* C10: a failed extraction is kept on its row with the error text as the
\* client gave it, the loop goes on to the next page, and a finished batch
\* has one row per page, each Done or Failed
ErrorDict(text) == Dict(<< <<"error", Scalar(text)>> >>)

C10_Inv ==
    \A s \in Sessions :
        /\ \A i \in 1..Len(data[s]) :
              data[s][i].status = "Failed" =>
                  data[s][i].json \in {ErrorDict("model timeout"),
                                       ErrorDict("Expecting value"),
                                       ErrorDict("not an invoice")}
        /\ extraction_complete[s] =>
              /\ Len(data[s]) = total_pages[s]
              /\ \A i \in 1..Len(data[s]) :
                    data[s][i].status \in {"Done", "Failed"}

C10_Step ==
    \A s \in Sessions :
        ( /\ pc[s] = "calling" /\ data'[s] # data[s]
          /\ data'[s][Len(data[s])].status = "Failed" )
        => /\ Len(data'[s]) = Len(data[s])
           /\ \A i \in 1..(Len(data[s]) - 1) : data'[s][i] = data[s][i]
           /\ count'[s] = count[s] + 1
           /\ IF count'[s] < total_pages[s]
              THEN pc'[s] = "extracting" /\ ~extraction_complete'[s]
              ELSE pc'[s] = "idle" /\ extraction_complete'[s]

\* C10: failures stay on their rows verbatim and never end the batch early
C10_FailureRecordedBatchContinues == []C10_Inv /\ [][C10_Step]_vars

\* a finished batch of two pages whose first page failed
C10_Witness ==
    /\ extraction_complete["s1"]
    /\ Len(data["s1"]) = 2
    /\ data["s1"][1].status = "Failed"
    /\ data["s1"][1].json = ErrorDict("model timeout")
    /\ data["s1"][2].status = "Done"

\* C2: when two sessions have each verified a row, with different keys, and
\* no save is under way, the store holds both keys
Quiescent == \A s \in Sessions : pc[s] \notin {"verify_open", "verify_write",
                                               "approve_open", "approve_write"}

C2_BothVerificationsStored ==
    \A s, t \in Sessions : \A i \in verified_rows[s] : \A j \in verified_rows[t] :
        (s # t /\ RowKeys(s)[i] # RowKeys(t)[j] /\ Quiescent /\ Loadable)
        => {RowKeys(s)[i], RowKeys(t)[j]} \subseteq KeysOf(Store)

\* C3: whatever the store holds when it is read, no two of its entries have
\* the same (file, page)
C3_StoreKeysUnique ==
    Loadable => \A i, j \in 1..Len(Store) :
                    KeyOf(Store[i]) = KeyOf(Store[j]) => i = j

\* C4: the list an approve handler saves is the loaded store without the
\* entry whose key the approver clicked on the page: that entry is gone and
\* every other entry is kept as it was
C4_ApproveRemovesSelected ==
    [][\A s \in Sessions :
          (pc[s] \in {"idle", "fin_rerun"} /\ pc'[s] = "approve_open")
          => LET selected == approval[s][clicked'[s].idx]
                 loaded == Store
             IN \E j \in 1..Len(loaded) :
                   /\ KeyOf(loaded[j]) = selected
                   /\ verified_invoices'[s] = RemoveAt(loaded, j)]_vars

\* C7: no run that reads the store ever finds it empty, cut short or half
\* written
C7_ReadersSeeWholeStore ==
    \A s \in Sessions : outcome[s] # "JSONDecodeError"

\* C11: no row is left in "Extracting..." once its call is over: whenever the
\* session is not inside the call of a page, every row is Done or Failed, also
\* when the batch was cancelled or interrupted
C11_NoRowLeftExtracting ==
    \A s \in Sessions :
        pc[s] # "calling" =>
            \A i \in 1..Len(data[s]) : data[s][i].status # "Extracting..."

\* C12: when a verify has been saved, the store has one entry for the row's
\* key and its fields are the flattened fields of the row, each with the text
\* the reviewer left in its input box (the typed text where the box was
\* changed); and the list the finance page shows is the store's entries, each
\* once, in the order of the store
C12_VerifiedEntryHoldsEdits ==
    \A s \in Sessions :
        /\ pc[s] = "proc_rerun" =>
              /\ Loadable
              /\ LET row == data[s][clicked[s].idx]
                     flat == flatten_json(row.json, "")
                     hits == {j \in 1..Len(Store) :
                                 KeyOf(Store[j]) = KeyOf(row)}
                 IN /\ Cardinality(hits) = 1
                    /\ \A j \in hits :
                          LET f == Store[j].fields
                          IN /\ Len(f) = Len(flat)
                             /\ \A i \in 1..Len(f) :
                                   /\ f[i][1] = flat[i][1]
                                   /\ f[i][2] =
                                        IF f[i][1] \in text_input[s]
                                        THEN EditValue
                                        ELSE Str(flat[i][2])
        /\ (pc[s] = "idle" /\ approval[s] # <<>> /\ Loadable) =>
              approval[s] = [i \in 1..Len(Store) |-> KeyOf(Store[i])]

\* page 2 was verified with its invoice number retyped, after page 1
C12_Witness ==
    /\ pc["s1"] = "proc_rerun"
    /\ text_input["s1"] = {"InvoiceDetails > Number"}
    /\ Loadable
    /\ Len(Store) = 2
    /\ KeyOf(Store[2]) = <<"invoice.pdf", 2>>
    /\ Store[2].fields = << <<"InvoiceDetails > Number", "INV-001-A">> >>
    /\ data["s1"][2].json = OkRecord

\* C13: an approve click on a row of the finance page whose key the store
\* no longer holds is answered with NotFoundError and changes nothing in the
\* store
C13_AbsentKeyApproveRejected ==
    [][\A s \in Sessions :
          ( /\ pc[s] = "idle"
            /\ Loadable
            /\ clicked'[s].btn = "approve"
            /\ <<pc[s], outcome[s], clicked[s], approval[s]>>'
                 # <<pc[s], outcome[s], clicked[s], approval[s]>>
            /\ approval[s][clicked'[s].idx] \notin KeysOf(Store) )
          => /\ outcome'[s] = "NotFoundError"
             /\ pc'[s] = "idle"
             /\ UNCHANGED fileVars]_vars

\* the scalars of a nested value, counted and collected
RECURSIVE LeafCount(_)
RECURSIVE LeafCountOfAll(_)
LeafCount(v) ==
    IF isdict(v) THEN LeafCountOfAll([i \in 1..Len(v.d) |-> v.d[i][2]])
    ELSE IF islist(v) THEN LeafCountOfAll(v.l)
    ELSE 1

LeafCountOfAll(vs) ==
    IF vs = <<>> THEN 0 ELSE LeafCount(Head(vs)) + LeafCountOfAll(Tail(vs))

RECURSIVE LeafValues(_)
LeafValues(v) ==
    IF isdict(v) THEN UNION {LeafValues(v.d[i][2]) : i \in 1..Len(v.d)}
    ELSE IF islist(v) THEN UNION {LeafValues(v.l[i]) : i \in 1..Len(v.l)}
    ELSE {v}

\* the rows of session s that extraction has completed with a JSON object
DoneRows(s) == {i \in 1..Len(data[s]) : data[s][i].status = "Done"}
FlatOf(s, i) == flatten_json(data[s][i].json, "")

\* C14: flattening keeps every leaf of a record, each under a path of its
\* own: the flattened fields carry exactly as many leaves as the record has,
\* no path stands for two of them, and every leaf value is among the values
C14_FlattenKeepsEveryLeaf ==
    \A s \in Sessions : \A i \in DoneRows(s) :
        LET flat == FlatOf(s, i)
            values == [j \in 1..Len(flat) |-> flat[j][2]]
        IN /\ LeafCountOfAll(values) = LeafCount(data[s][i].json)
           /\ \A a, b \in 1..Len(flat) : flat[a][1] = flat[b][1] => a = b
           /\ \A leaf \in LeafValues(data[s][i].json) :
                 \E j \in 1..Len(flat) : leaf \in LeafValues(flat[j][2])

\* the fields of a record whose value is empty: an empty string, an empty
\* list or an empty section, each under its path
IsEmptyValue(v) == v \in {Scalar(""), List(<<>>), Dict(<<>>)}

RECURSIVE EmptyFieldPaths(_, _)
EmptyFieldPaths(its, parent_key) ==
    IF its = <<>> THEN {}
    ELSE LET k == Head(its)[1]
             v == Head(its)[2]
             path == IF parent_key # "" THEN parent_key \o sep \o k ELSE k
         IN (IF IsEmptyValue(v) THEN {path}
             ELSE IF isdict(v) THEN EmptyFieldPaths(v.d, path)
             ELSE {})
            \cup EmptyFieldPaths(Tail(its), parent_key)

\* C15: every empty field of a record is in its flattened fields, under the
\* field's path and with the empty string as its value
C15_EmptyFieldsKept ==
    \A s \in Sessions : \A i \in DoneRows(s) :
        LET flat == FlatOf(s, i)
        IN \A path \in EmptyFieldPaths(data[s][i].json.d, "") :
              \E j \in 1..Len(flat) : flat[j] = <<path, Scalar("")>>

\* C17: every value among the flattened fields of a record is a scalar,
\* never a list or a mapping
C17_FlatValuesAreScalars ==
    \A s \in Sessions : \A i \in DoneRows(s) :
        LET flat == FlatOf(s, i)
        IN \A j \in 1..Len(flat) : ~isdict(flat[j][2]) /\ ~islist(flat[j][2])

\* C16: once the call of a row is over, the row is Done exactly when the
\* client returned a JSON object and Failed exactly when it returned an error,
\* whatever keys that object has
C16_DoneIffRecordReturned ==
    \A s \in Sessions : \A i \in 1..Len(data[s]) :
        data[s][i].status # "Extracting..." =>
            /\ data[s][i].status = "Done" <=> i \in returned_rows[s]
            /\ data[s][i].status = "Failed" <=> i \notin returned_rows[s]

\* the pages of the running batch whose call is over
Completed(s) == {i \in 1..Len(data[s]) : data[s][i].status # "Extracting..."}

C19_Inv ==
    \A s \in Sessions :
        /\ count[s] \in 0..total_pages[s]
        /\ count[s] = Cardinality(Completed(s))
        /\ extraction_complete[s] => count[s] = total_pages[s]

C19_Step ==
    \A s \in Sessions :
        count'[s] # count[s] =>
            \/ /\ pc[s] = "calling"
               /\ count'[s] = count[s] + 1
               /\ total_pages'[s] = total_pages[s]
            \/ /\ pc[s] = "idle" /\ pc'[s] = "extracting"
               /\ count'[s] = 0

\* C19: within a batch the progress count only grows, by one with each page
\* whose call is over, it never passes the number of pages of the batch, and
\* it is that number when the batch has gone through all its pages
C19_ProgressMonotonic == []C19_Inv /\ [][C19_Step]_vars

\* a batch of two pages, the first of them failed, has come to its end
C19_Witness ==
    /\ extraction_complete["s1"]
    /\ total_pages["s1"] = 2
    /\ count["s1"] = 2
    /\ data["s1"][1].status = "Failed"

\* C18: the bytes the compress_image of invoice_extractor.py returns, which
\* go to the extraction client, are never more than the ceiling,
\* max_size_mb * 1024 * 1024
C18_ReturnedWithinCeiling ==
    (cpc = "returned" /\ compress_of = "invoice_extractor")
    => img_byte_arr <= max_size_mb * 1024 * 1024

\* the qualities the loop can be at: from the start value down in steps of 5
C20_Inv ==
    cpc # "none" =>
        /\ quality \in 10..StartQuality(compress_of)
        /\ (StartQuality(compress_of) - quality) % 5 = 0
        /\ encodes = (StartQuality(compress_of) - quality) \div 5
                     + (IF cpc = "save" THEN 0 ELSE 1)
        /\ encodes <= 18

C20_Step ==
    /\ quality' # quality /\ cpc # "none" => quality' = quality - 5
    /\ cpc = "returned" => cpc' = "returned"

\* C20: the loop of compress_image comes to its end for every image and every
\* ceiling: the quality goes down by 5 with every round from its start value,
\* never below 10, so that no call saves the image more than 18 times (15
\* from a start of 80), and every call returns
C20_CompressTerminates ==
    /\ []C20_Inv
    /\ [][C20_Step]_vars
    /\ (cpc = "save") ~> (cpc = "returned")

\* a call that went all the way down: 18 saves, returned at quality 10 with
\* an encoding above the ceiling
C20_Witness ==
    /\ cpc = "returned"
    /\ compress_of = "invoice_extractor"
    /\ quality = 10
    /\ encodes = 18
    /\ img_byte_arr > max_size_mb * 1024 * 1024

====
